---- MODULE Spec2Model ----
(***************************************************************************)
(* Model of the connectivity-aware geometry editing engine of kasuga's     *)
(* molecular.py: ConnectivityGraph (flood_fill_search, subsets_connected), *)
(* Molecule.get_connectivity_matrix and the internal-coordinate editors    *)
(* change_bond, change_angle and change_dihedral.                          *)
(*                                                                         *)
(* Lengths are integers in units of the bonding cutoff of Atom.connected   *)
(* (0.025), so two atoms are bonded iff their squared distance is at most  *)
(* CutoffSq and one unit of length of the source is UnitLength.            *)
(* Arrays are functions on 0..n-1, as numpy indexes them.                  *)
(***************************************************************************)
EXTENDS Integers, Sequences, FiniteSets, TLC

VARIABLES
    atoms,               \* Molecule.atoms: the coord of each atom, by index
    connectivity_graph,  \* Molecule.connectivity_graph: None or size + nodes
    op,                  \* the public method that is running or ran last
    ids,                 \* its atom indices (startpoint, bond, angle, dihedral)
    delta,               \* its delta argument
    subsets,             \* the two arrays given to subsets_connected
    pc,                  \* position inside the running method
    startpoint,          \* flood_fill_search: local startpoint
    excluded,            \* flood_fill_search: argument excluded
    inside,              \* flood_fill_search: local array inside
    checked,             \* flood_fill_search: local array checked
    first_fragment,      \* editors: local first_fragment
    second_fragment,     \* editors: local second_fragment
    outcome,             \* how the last call ended: returned or the exception
    ret,                 \* what the last call returned
    before,              \* atoms when the running call started
    symbol,              \* Atom.symbol of each atom, by index
    weight,              \* Atom.weight of each atom, by index
    molecular_formula,   \* Molecule.molecular_formula: None or the string
    mass_center,         \* Molecule.mass_center: None or what was assigned
    inertia_eigenvectors, \* Molecule.inertia_eigenvectors, and the
                         \* inertia_eigenvalues assigned along with them
    args                 \* the other arguments of the running call

vars == <<atoms, connectivity_graph, op, ids, delta, subsets, pc, startpoint,
          excluded, inside, checked, first_fragment, second_fragment, outcome,
          ret, before, symbol, weight, molecular_formula, mass_center,
          inertia_eigenvectors, args>>

\* the fields of the atoms and of the molecule that the graph and the
\* editors never read or write
atom_vars == <<symbol, weight, molecular_formula, mass_center,
               inertia_eigenvectors>>

\* a call that takes no argument besides its atom indices and delta
NoArgs == <<>>

\* python's None
None == "None"

\* Atom(): the symbol "" and the weight 0.0 of every atom of a list
BlankAtoms(ats) ==
    /\ symbol = [i \in DOMAIN ats |-> ""]
    /\ weight = [i \in DOMAIN ats |-> 0]

\* Molecule(): nothing is cached
NothingCached ==
    /\ molecular_formula = None
    /\ mass_center = None
    /\ inertia_eigenvectors = None

(***************************************************************************)
(* Bounds                                                                  *)
(***************************************************************************)
\* vertices of the graphs given to ConnectivityGraph's methods directly
MaxVertices == 3
\* atoms of a molecule
MaxAtoms == 5

(***************************************************************************)
(* Arrays and graphs                                                       *)
(***************************************************************************)
Indices(n) == 0 .. (n - 1)

\* np.zeros(n)
Zeros(n) == [i \in Indices(n) |-> 0]

\* np.zeros((size, size)), ConnectivityGraph.__init__
ZeroNodes(size) == [i \in Indices(size) |-> [j \in Indices(size) |-> 0]]

\* Molecule.connectivity_graph = None
NoGraph == [none |-> TRUE, size |-> 0, nodes |-> ZeroNodes(0)]

ConnectivityGraph(size) == [none |-> FALSE, size |-> size, nodes |-> ZeroNodes(size)]

\* the set an array of 0/1 flags stands for
Members(arr) == {i \in DOMAIN arr : arr[i] = 1}

\* the tuple a caller writes as (a, b, c)
TupleOf(S) == [kind |-> "tuple", items |-> S, value |-> 0]

\* the parenthesised expression (a), which is the integer a itself
IntOf(a) == [kind |-> "int", items |-> {}, value |-> a]

\* the test of line 384: an edge in either direction
Edge(nodes, a, b) == nodes[a][b] = 1 \/ nodes[b][a] = 1


(***************************************************************************)
(* ConnectivityGraph.flood_fill_search                                     *)
(***************************************************************************)
\* the test "i not in excluded" of line 385: membership in a tuple; an int
\* operand is not iterable and the test raises TypeError
NotInRaises(ex) == ex.kind = "int"

\* line 385 with the test the wrong way round, "i in excluded"
NotInInverted(i, ex) == i \in ex.items

NotIn(i, ex) == i \notin ex.items

\* lines 383-386 reach "i not in excluded" for some i: the start has an edge
ReachesNotIn(nodes, size, start) == \E i \in Indices(size) : Edge(nodes, start, i)

\* lines 383-386: every unexcluded neighbour of the start is marked inside
MarkInside(nodes, size, start, ex, ins) ==
    [i \in Indices(size) |->
        IF Edge(nodes, start, i) /\ NotIn(i, ex) THEN 1 ELSE ins[i]]

\* line 387
MarkChecked(chk, start) == [chk EXCEPT ![start] = 1]

\* lines 388-394: count_checked and count_inside
CountOnes(arr) == Cardinality(Members(arr))

SetMax(S) == CHOOSE m \in S : \A x \in S : x <= m

\* lines 395-396: the last i, in index order, that is checked and inside
\* becomes the next start; the start is kept when there is none
NextStartpoint(size, start, ins, chk) ==
    LET C == {i \in Indices(size) : chk[i] # 0 /\ ins[i] = 1}
    IN  IF C = {} THEN start ELSE SetMax(C)

InFloodMark == pc \in {"ff_mark", "ff1_mark", "ff2_mark"}
InFloodCount == pc \in {"ff_count", "ff1_count", "ff2_count"}

CountOf(p) ==
    CASE p = "ff_mark" -> "ff_count"
      [] p = "ff1_mark" -> "ff1_count"
      [] p = "ff2_mark" -> "ff2_count"

MarkOf(p) ==
    CASE p = "ff_count" -> "ff_mark"
      [] p = "ff1_count" -> "ff1_mark"
      [] p = "ff2_count" -> "ff2_mark"

NoArray == Zeros(0)
NoRet == [inside |-> NoArray, connected |-> FALSE]
NoSubsets == <<NoArray, NoArray>>

\* a call of graph.flood_fill_search(start, excluded) with a tuple of vertices
Call_flood_fill_search(start, ex) ==
    /\ pc = "idle"
    /\ ~connectivity_graph.none
    /\ start \in Indices(connectivity_graph.size)
    /\ op' = "flood_fill_search"
    /\ ids' = <<start>>
    /\ delta' = 0
    /\ subsets' = NoSubsets
    /\ pc' = "ff_mark"
    /\ startpoint' = start
    /\ excluded' = TupleOf(ex)
    /\ inside' = Zeros(connectivity_graph.size)
    /\ checked' = Zeros(connectivity_graph.size)
    /\ first_fragment' = NoArray
    /\ second_fragment' = NoArray
    /\ outcome' = "running"
    /\ ret' = NoRet
    /\ before' = atoms
    /\ UNCHANGED <<atoms, connectivity_graph>>
    /\ UNCHANGED <<atom_vars, args>>

\* lines 383-387, one pass of the while loop up to the counting
flood_fill_search_mark ==
    /\ InFloodMark
    /\ ~(NotInRaises(excluded)
         /\ ReachesNotIn(connectivity_graph.nodes, connectivity_graph.size, startpoint))
    /\ inside' = MarkInside(connectivity_graph.nodes, connectivity_graph.size,
                            startpoint, excluded, inside)
    /\ checked' = MarkChecked(checked, startpoint)
    /\ pc' = CountOf(pc)
    /\ UNCHANGED <<atoms, connectivity_graph, op, ids, delta, subsets, startpoint,
                   excluded, first_fragment, second_fragment, outcome, ret, before>>
    /\ UNCHANGED <<atom_vars, args>>

\* line 385 raises TypeError: the exception ends the running public method
flood_fill_search_raise ==
    /\ InFloodMark
    /\ NotInRaises(excluded)
    /\ ReachesNotIn(connectivity_graph.nodes, connectivity_graph.size, startpoint)
    /\ pc' = "done"
    /\ outcome' = "TypeError"
    /\ UNCHANGED <<atoms, connectivity_graph, op, ids, delta, subsets, startpoint,
                   excluded, inside, checked, first_fragment, second_fragment, ret,
                   before>>
    /\ UNCHANGED <<atom_vars, args>>

\* lines 388-397 when the counts differ: the loop goes round again
flood_fill_search_loop ==
    /\ InFloodCount
    /\ CountOnes(inside) # CountOnes(checked)
    /\ startpoint' = NextStartpoint(connectivity_graph.size, startpoint, inside, checked)
    /\ pc' = MarkOf(pc)
    /\ UNCHANGED <<atoms, connectivity_graph, op, ids, delta, subsets, excluded,
                   inside, checked, first_fragment, second_fragment, outcome, ret,
                   before>>
    /\ UNCHANGED <<atom_vars, args>>

\* lines 388-398 when the counts agree, in a direct call: return inside
flood_fill_search_return ==
    /\ pc = "ff_count"
    /\ CountOnes(inside) = CountOnes(checked)
    /\ startpoint' = NextStartpoint(connectivity_graph.size, startpoint, inside, checked)
    /\ pc' = "done"
    /\ outcome' = "returned"
    /\ ret' = [inside |-> inside, connected |-> FALSE]
    /\ UNCHANGED <<atoms, connectivity_graph, op, ids, delta, subsets, excluded,
                   inside, checked, first_fragment, second_fragment, before>>
    /\ UNCHANGED <<atom_vars, args>>

(***************************************************************************)
(* ConnectivityGraph.subsets_connected                                     *)
(***************************************************************************)
\* np.ndarray.size of a one-dimensional array
ArraySize(arr) == Cardinality(DOMAIN arr)

\* lines 401-405: i1 and i2 range over the positions of the two arrays and
\* index the matrix themselves; the arrays' elements are never read
subsets_connected(nodes, subset_one, subset_two) ==
    \E i1 \in Indices(ArraySize(subset_one)), i2 \in Indices(ArraySize(subset_two)) :
        Edge(nodes, i1, i2)

\* a call of graph.subsets_connected(A, B) with two fragments as
\* flood_fill_search returns them: arrays of flags of the graph's size
Call_subsets_connected(subset_one, subset_two) ==
    /\ pc = "idle"
    /\ ~connectivity_graph.none
    /\ op' = "subsets_connected"
    /\ ids' = <<>>
    /\ delta' = 0
    /\ subsets' = <<subset_one, subset_two>>
    /\ pc' = "done"
    /\ outcome' = "returned"
    /\ ret' = [inside |-> NoArray,
               connected |-> subsets_connected(connectivity_graph.nodes,
                                               subset_one, subset_two)]
    /\ first_fragment' = NoArray
    /\ second_fragment' = NoArray
    /\ before' = atoms
    /\ startpoint' = 0
    /\ excluded' = TupleOf({})
    /\ inside' = NoArray
    /\ checked' = NoArray
    /\ UNCHANGED <<atoms, connectivity_graph>>
    /\ UNCHANGED <<atom_vars, args>>

(***************************************************************************)
(* The caller                                                              *)
(***************************************************************************)
\* no call is running and none has ended: the frame of the model is clear
ClearFrame ==
    /\ op' = "none"
    /\ ids' = <<>>
    /\ delta' = 0
    /\ subsets' = NoSubsets
    /\ pc' = "idle"
    /\ startpoint' = 0
    /\ excluded' = TupleOf({})
    /\ inside' = NoArray
    /\ checked' = NoArray
    /\ first_fragment' = NoArray
    /\ second_fragment' = NoArray
    /\ outcome' = "none"
    /\ ret' = NoRet
    /\ before' = atoms
    /\ args' = NoArgs

\* the caller takes the result or the exception of the call that ended and
\* goes on; the molecule and its graph stay as the call left them
Continue ==
    /\ pc = "done"
    /\ ClearFrame
    /\ UNCHANGED <<atoms, connectivity_graph>>
    /\ UNCHANGED atom_vars

(***************************************************************************)
(* SpecGraph: a ConnectivityGraph with any adjacency matrix, and direct    *)
(* calls of its two methods                                                *)
(***************************************************************************)
Flags(n) == [Indices(n) -> {0, 1}]

Matrices(n) == [Indices(n) -> Flags(n)]

InitCall ==
    /\ op = "none"
    /\ ids = <<>>
    /\ delta = 0
    /\ subsets = NoSubsets
    /\ pc = "idle"
    /\ startpoint = 0
    /\ excluded = TupleOf({})
    /\ inside = NoArray
    /\ checked = NoArray
    /\ first_fragment = NoArray
    /\ second_fragment = NoArray
    /\ outcome = "none"
    /\ ret = NoRet
    /\ args = NoArgs

InitGraph ==
    /\ atoms = <<>>
    /\ before = <<>>
    /\ \E nodes \in Matrices(MaxVertices) :
          connectivity_graph = [none |-> FALSE, size |-> MaxVertices, nodes |-> nodes]
    /\ BlankAtoms(atoms)
    /\ NothingCached
    /\ InitCall

NextGraph ==
    \/ \E start \in Indices(MaxVertices), ex \in SUBSET Indices(MaxVertices) :
          Call_flood_fill_search(start, ex)
    \/ flood_fill_search_mark
    \/ flood_fill_search_loop
    \/ flood_fill_search_return
    \/ \E subset_one \in Flags(MaxVertices), subset_two \in Flags(MaxVertices) :
          Call_subsets_connected(subset_one, subset_two)
    \/ Continue

SpecGraph == InitGraph /\ [][NextGraph]_vars

\* the while loop of flood_fill_search runs on: nothing else can stop it
FairSpecGraph ==
    SpecGraph /\ WF_vars(flood_fill_search_mark) /\ WF_vars(flood_fill_search_loop)
              /\ WF_vars(flood_fill_search_return)


(***************************************************************************)
(* Vector and Atom                                                         *)
(***************************************************************************)
\* Atom.connected, default cutoff 0.025: the unit of length of the model,
\* so d <= cutoff is d * d <= CutoffSq
CutoffSq == 1

\* one unit of length of the source (1 / 0.025 cutoffs)
UnitLength == 40

\* np.array([x, y, z])
Vec(x, y, z) == (0 :> x) @@ (1 :> y) @@ (2 :> z)

VSub(a, b) == [k \in 0 .. 2 |-> a[k] - b[k]]

\* array + scalar: numpy adds the scalar to every component
VAddScalar(a, c) == [k \in 0 .. 2 |-> a[k] + c]

Dot(a, b) == a[0] * b[0] + a[1] * b[1] + a[2] * b[2]

\* np.cross
Cross(a, b) ==
    Vec(a[1] * b[2] - a[2] * b[1], a[2] * b[0] - a[0] * b[2], a[0] * b[1] - a[1] * b[0])

NormSq(a) == Dot(a, a)

\* Vector.distance, squared
DistSq(a, b) == NormSq(VSub(a, b))

\* np.linalg.norm of a vector whose length is a whole number of units
Norm(a) == CHOOSE n \in 0 .. NormSq(a) : n * n = NormSq(a)

\* line 442 with d < cutoff in place of d <= cutoff
connected_strictly(a, b) == DistSq(a, b) < CutoffSq

\* Atom.connected(b) with simplified=False and the default cutoff
connected(a, b) == DistSq(a, b) <= CutoffSq

NumAtoms(ats) == Cardinality(DOMAIN ats)

(***************************************************************************)
(* Molecule.get_connectivity_matrix                                        *)
(***************************************************************************)
\* lines 553-554: the graph is created on the first call only
GraphOrNew(graph, ats) ==
    IF graph.none THEN ConnectivityGraph(NumAtoms(ats)) ELSE graph

\* the order in which lines 555-556 visit the pairs (i1, i2), i1 <= i2
PairBefore(p, q) == p[1] < q[1] \/ (p[1] = q[1] /\ p[2] < q[2])

\* the bonded pairs whose entry lies outside a matrix of this size: writing
\* it raises IndexError. The molecule then has more atoms than the graph
\* was created for
RaisingPairs(ats, size) ==
    {p \in (DOMAIN ats) \X (DOMAIN ats) :
        p[1] <= p[2] /\ p[2] >= size /\ connected(ats[p[1]], ats[p[2]])}

FillRaises(ats, size) == RaisingPairs(ats, size) # {}

\* the pair (lo, hi) is written: it is bonded and visited before any raise
Written(ats, size, lo, hi) ==
    /\ lo \in DOMAIN ats /\ hi \in DOMAIN ats
    /\ connected(ats[lo], ats[hi])
    /\ \A q \in RaisingPairs(ats, size) : PairBefore(<<lo, hi>>, q)

\* lines 555-558 without line 559: only nodes[i1, i2], i1 <= i2, is set
FillNodesOneEntry(ats, size, nodes) ==
    [i1 \in Indices(size) |-> [i2 \in Indices(size) |->
        IF i1 <= i2 /\ connected(ats[i1], ats[i2]) THEN 1 ELSE nodes[i1][i2]]]

\* lines 555-559: both entries of every bonded pair, the pair of an atom
\* with itself included (i2 starts at i1), are set to 1; no entry is ever
\* set back to 0
FillNodes(ats, size, nodes) ==
    [i1 \in Indices(size) |-> [i2 \in Indices(size) |->
        IF Written(ats, size, IF i1 <= i2 THEN i1 ELSE i2, IF i1 <= i2 THEN i2 ELSE i1)
        THEN 1 ELSE nodes[i1][i2]]]

get_connectivity_matrix ==
    /\ pc = "idle"
    /\ LET graph == GraphOrNew(connectivity_graph, atoms)
       IN  /\ connectivity_graph' =
                 [graph EXCEPT !.nodes = FillNodes(atoms, graph.size, graph.nodes)]
           /\ outcome' = IF FillRaises(atoms, graph.size) THEN "IndexError"
                                                         ELSE "returned"
    /\ op' = "get_connectivity_matrix"
    /\ pc' = "done"
    /\ ids' = <<>>
    /\ delta' = 0
    /\ subsets' = NoSubsets
    /\ startpoint' = 0
    /\ excluded' = TupleOf({})
    /\ inside' = NoArray
    /\ checked' = NoArray
    /\ first_fragment' = NoArray
    /\ second_fragment' = NoArray
    /\ ret' = NoRet
    /\ before' = atoms
    /\ UNCHANGED atoms
    /\ UNCHANGED <<atom_vars, args>>

(***************************************************************************)
(* Vector.rotate                                                           *)
(***************************************************************************)
\* the atom object self.atoms[k], passed where rotate expects coordinates
AtomObject(k) == [kind |-> "Atom", index |-> k, coord |-> Vec(0, 0, 0)]

\* an np.array of coordinates
ArrayObject(v) == [kind |-> "array", index |-> 0, coord |-> v]

\* line 336, self.coord - axis_point: an Atom is no array and defines no
\* arithmetic, so numpy's subtraction raises TypeError
rotate_raises(axis_point) == axis_point.kind = "Atom"

\* np.cos and np.sin of np.deg2rad(angle), exact at whole quarter turns
Cos(angle) ==
    CASE angle % 360 = 0 -> 1
      [] angle % 360 = 90 -> 0
      [] angle % 360 = 180 -> -1
      [] angle % 360 = 270 -> 0

Sin(angle) ==
    CASE angle % 360 = 0 -> 0
      [] angle % 360 = 90 -> 1
      [] angle % 360 = 180 -> 0
      [] angle % 360 = 270 -> -1

\* line 337, axis_vector / norm, exact for an axis along a coordinate axis
Normalized(v) == LET n == Norm(v) IN [k \in 0 .. 2 |-> v[k] \div n]

\* lines 339-347: the entries the code assigns; matrix[2, 1] stays 0
rotation_matrix(angle, axis_vector) ==
    LET a == Normalized(axis_vector)
        c == Cos(angle)
        sn == Sin(angle)
        m01 == a[0] * a[1] * (1 - c) - a[2] * sn
        m02 == a[0] * a[0] * (1 - c) + a[1] * sn
    IN  (0 :> Vec(c + a[0] * a[0] * (1 - c), m01, m02))
        @@ (1 :> Vec(m01, c + a[1] * a[1] * (1 - c), a[1] * a[2] * (1 - c) - a[0] * sn))
        @@ (2 :> Vec(m02, 0, c + a[2] * a[2] * (1 - c)))

\* np.matmul(v, m): the row vector v times the matrix m
VecMat(v, m) == [j \in 0 .. 2 |-> v[0] * m[0][j] + v[1] * m[1][j] + v[2] * m[2][j]]

\* lines 336-350 with coordinates as axis_point: the new self.coord
rotate(coord, angle, axis_vector, axis_point) ==
    LET axis_diff == VSub(coord, axis_point)
        axis_diff_rotated == VecMat(axis_diff, rotation_matrix(angle, axis_vector))
        axis_translation == VSub(axis_diff, axis_diff_rotated)
    IN  [k \in 0 .. 2 |-> coord[k] + axis_translation[k]]

\* the statement self.atoms[atom].rotate(angle, axis_vector, axis_point)
RotateCall(atom, angle, axis_vector, axis_point) ==
    [atom |-> atom, angle |-> angle, axis_vector |-> axis_vector,
     axis_point |-> axis_point]

\* statements run in order; the first one that raises ends the method and
\* leaves the atoms as the statements before it made them
RECURSIVE RunStatements(_, _)
RunStatements(ats, calls) ==
    IF calls = <<>> THEN [outcome |-> "returned", atoms |-> ats]
    ELSE LET call == Head(calls)
         IN  IF rotate_raises(call.axis_point)
             THEN [outcome |-> "TypeError", atoms |-> ats]
             ELSE RunStatements(
                      [ats EXCEPT ![call.atom] =
                          rotate(@, call.angle, call.axis_vector, call.axis_point.coord)],
                      Tail(calls))

(***************************************************************************)
(* Molecule.change_bond, change_angle, change_dihedral                     *)
(*                                                                         *)
(* ids is the tuple of atom indices of the call, counted from 1 as TLA+    *)
(* counts tuples: ids[1] is bond[0], angle[0] or dihedral[0].              *)
(***************************************************************************)
Editors == {"change_bond", "change_angle", "change_dihedral"}

\* the first search: lines 641, 655, 670. (bond[1]) and (angle[1]) are
\* integers in parentheses, not tuples
FirstStart(o, t) == t[1]

FirstExcluded(o, t) ==
    CASE o = "change_bond" -> IntOf(t[2])
      [] o = "change_angle" -> IntOf(t[2])
      [] o = "change_dihedral" -> TupleOf({t[2], t[3], t[4]})

\* the second search: lines 642, 656, 671
SecondStart(o, t) ==
    CASE o = "change_bond" -> t[2]
      [] o = "change_angle" -> t[3]
      [] o = "change_dihedral" -> t[4]

SecondExcluded(o, t) ==
    CASE o = "change_bond" -> IntOf(t[1])
      [] o = "change_angle" -> IntOf(t[2])
      [] o = "change_dihedral" -> TupleOf({t[1], t[2], t[3]})

\* python's delta / 2 for an even delta
Half(d) == d \div 2

\* "for i in fragment: self.atoms[i]": the elements of the array that
\* flood_fill_search returns are numpy floats, and a list index must be an
\* integer: the first iteration raises TypeError
FragmentLoopRaises(fragment) == ArraySize(fragment) > 0

\* lines 649-652, 664-667, 677-680: the loops over the two fragments
WholeFragments(ats, first, second) ==
    IF FragmentLoopRaises(first) \/ FragmentLoopRaises(second)
    THEN [outcome |-> "TypeError", atoms |-> ats]
    ELSE [outcome |-> "returned", atoms |-> ats]

\* lines 643-652. translation_vector is overwritten by its own norm, a
\* number, which is then added to all three coordinates
change_bond_edit(ats, nodes, bond, d, first, second) ==
    LET translation_vector == Norm(VSub(ats[bond[1]], ats[bond[2]]))
        shift == (d * translation_vector) \div 2
    IN  IF subsets_connected(nodes, first, second)
        THEN [outcome |-> "returned",
              atoms |-> [ats EXCEPT ![bond[1]] = VAddScalar(@, shift),
                                    ![bond[2]] = VAddScalar(@, 0 - shift)]]
        ELSE WholeFragments(ats, first, second)

\* lines 661-662: both statements rotate self.atoms[angle[0]]
AngleCrossLinked(angle, d, rotation_vector) ==
    << RotateCall(angle[1], Half(d), rotation_vector, AtomObject(angle[2])),
       RotateCall(angle[1], 0 - Half(d), rotation_vector, AtomObject(angle[2])) >>

\* lines 657-667
change_angle_edit(ats, nodes, angle, d, first, second) ==
    LET v1 == VSub(ats[angle[1]], ats[angle[2]])
        v2 == VSub(ats[angle[3]], ats[angle[2]])
        rotation_vector == Cross(v1, v2)
    IN  IF subsets_connected(nodes, first, second)
        THEN RunStatements(ats, AngleCrossLinked(angle, d, rotation_vector))
        ELSE WholeFragments(ats, first, second)

\* lines 674-675
DihedralCrossLinked(dihedral, d, rotation_vector) ==
    << RotateCall(dihedral[1], Half(d), rotation_vector, AtomObject(dihedral[2])),
       RotateCall(dihedral[4], 0 - Half(d), rotation_vector, AtomObject(dihedral[2])) >>

\* lines 672-680 replaced by the loop of lines 649-650 of change_bond, run
\* over the positions of first_fragment as subsets_connected runs over them
change_dihedral_edit_pasted_loop(ats, nodes, dihedral, d, first, second) ==
    [outcome |-> "returned",
     atoms |-> [i \in DOMAIN ats |->
                   IF i \in Indices(ArraySize(first))
                   THEN VAddScalar(ats[i], Half(d))
                   ELSE ats[i]]]

\* lines 672-680
change_dihedral_edit(ats, nodes, dihedral, d, first, second) ==
    LET rotation_vector == VSub(ats[dihedral[2]], ats[dihedral[3]])
    IN  IF subsets_connected(nodes, first, second)
        THEN RunStatements(ats, DihedralCrossLinked(dihedral, d, rotation_vector))
        ELSE WholeFragments(ats, first, second)

\* the call of an editor up to its first search. With no graph built,
\* self.connectivity_graph is None and line 641, 655 or 670 raises
\* AttributeError
CallEditor(o, t, d) ==
    /\ pc = "idle"
    /\ op' = o
    /\ ids' = t
    /\ delta' = d
    /\ subsets' = NoSubsets
    /\ first_fragment' = NoArray
    /\ second_fragment' = NoArray
    /\ ret' = NoRet
    /\ before' = atoms
    /\ IF connectivity_graph.none
       THEN /\ pc' = "done"
            /\ outcome' = "AttributeError"
            /\ startpoint' = 0
            /\ excluded' = TupleOf({})
            /\ inside' = NoArray
            /\ checked' = NoArray
       ELSE /\ pc' = "ff1_mark"
            /\ outcome' = "running"
            /\ startpoint' = FirstStart(o, t)
            /\ excluded' = FirstExcluded(o, t)
            /\ inside' = Zeros(connectivity_graph.size)
            /\ checked' = Zeros(connectivity_graph.size)
    /\ UNCHANGED <<atoms, connectivity_graph>>
    /\ UNCHANGED <<atom_vars, args>>

Call_change_bond(bond, d) == CallEditor("change_bond", bond, d)

Call_change_angle(angle, d) == CallEditor("change_angle", angle, d)

Call_change_dihedral(dihedral, d) == CallEditor("change_dihedral", dihedral, d)

\* the first search returns (line 398): first_fragment is assigned and the
\* second search starts
editor_first_fragment ==
    /\ pc = "ff1_count"
    /\ CountOnes(inside) = CountOnes(checked)
    /\ first_fragment' = inside
    /\ pc' = "ff2_mark"
    /\ startpoint' = SecondStart(op, ids)
    /\ excluded' = SecondExcluded(op, ids)
    /\ inside' = Zeros(connectivity_graph.size)
    /\ checked' = Zeros(connectivity_graph.size)
    /\ UNCHANGED <<atoms, connectivity_graph, op, ids, delta, subsets,
                   second_fragment, outcome, ret, before>>
    /\ UNCHANGED <<atom_vars, args>>

\* the second search returns: second_fragment is assigned
editor_second_fragment ==
    /\ pc = "ff2_count"
    /\ CountOnes(inside) = CountOnes(checked)
    /\ second_fragment' = inside
    /\ startpoint' = NextStartpoint(connectivity_graph.size, startpoint, inside, checked)
    /\ pc' = "edit"
    /\ UNCHANGED <<atoms, connectivity_graph, op, ids, delta, subsets, excluded,
                   inside, checked, first_fragment, outcome, ret, before>>
    /\ UNCHANGED <<atom_vars, args>>

EditResult ==
    CASE op = "change_bond" ->
            change_bond_edit(atoms, connectivity_graph.nodes, ids, delta,
                             first_fragment, second_fragment)
      [] op = "change_angle" ->
            change_angle_edit(atoms, connectivity_graph.nodes, ids, delta,
                              first_fragment, second_fragment)
      [] op = "change_dihedral" ->
            change_dihedral_edit(atoms, connectivity_graph.nodes, ids, delta,
                                 first_fragment, second_fragment)

\* the rest of the editor once both fragments are known
editor_edit ==
    /\ pc = "edit"
    /\ atoms' = EditResult.atoms
    /\ outcome' = EditResult.outcome
    /\ subsets' = <<first_fragment, second_fragment>>
    /\ ret' = [inside |-> NoArray,
               connected |-> subsets_connected(connectivity_graph.nodes,
                                               first_fragment, second_fragment)]
    /\ pc' = "done"
    /\ UNCHANGED <<connectivity_graph, op, ids, delta, startpoint, excluded, inside,
                   checked, first_fragment, second_fragment, before>>
    /\ UNCHANGED <<atom_vars, args>>

(***************************************************************************)
(* Spec: a molecule, its graph built on demand, and the editors            *)
(***************************************************************************)
\* a point far from the square below, where an atom is bonded to nothing
\* but the atoms on the same point
FarPoint == Vec(UnitLength, UnitLength, 0)

\* atoms on the corners of a square whose side is the bonding cutoff, or far
\* away: atoms on the same point or on neighbouring corners are bonded, so
\* the four corners make a ring of four bonds and three of them a chain
GridPoints == {Vec(x, y, 0) : x \in 0 .. 1, y \in 0 .. 1} \cup {FarPoint}

\* the chain A-B-C-D, straight, with bonds of one unit of length
UnitChain == [i \in Indices(4) |-> Vec(UnitLength * i, 0, 0)]

\* the chain A-B-C-D with bonds of one unit of length and right angles at B
\* and C
UnitStairs ==
    [i \in Indices(4) |->
        Vec(UnitLength * ((i + 1) \div 2), UnitLength * (i \div 2), 0)]

Geometries == [Indices(MaxAtoms) -> GridPoints] \cup {UnitChain, UnitStairs}

\* k atoms that follow one another in the list of n atoms, named forwards or
\* backwards. Geometries holds every placement of every atom, so every shape
\* occurs under every numbering of its atoms
IdTuples(n, k) ==
    {[i \in 1 .. k |-> first + i - 1] : first \in 0 .. (n - k)}
        \cup {[i \in 1 .. k |-> first - i + 1] : first \in (k - 1) .. (n - 1)}

\* the delta of change_bond, a length in cutoffs
BondDeltas == {2}

\* the delta of change_angle and change_dihedral, in degrees
AngleDeltas == {90}

Init ==
    /\ atoms \in Geometries
    /\ before = atoms
    /\ connectivity_graph = NoGraph
    /\ BlankAtoms(atoms)
    /\ NothingCached
    /\ InitCall

Next ==
    \/ get_connectivity_matrix
    \/ \E bond \in IdTuples(NumAtoms(atoms), 2), d \in BondDeltas :
          Call_change_bond(bond, d)
    \/ \E angle \in IdTuples(NumAtoms(atoms), 3), d \in AngleDeltas :
          Call_change_angle(angle, d)
    \/ \E dihedral \in IdTuples(NumAtoms(atoms), 4), d \in AngleDeltas :
          Call_change_dihedral(dihedral, d)
    \/ flood_fill_search_mark
    \/ flood_fill_search_raise
    \/ flood_fill_search_loop
    \/ editor_first_fragment
    \/ editor_second_fragment
    \/ editor_edit
    \/ Continue

Spec == Init /\ [][Next]_vars

(***************************************************************************)
(* Vector.mirror and Vector.xyz_mirror                                     *)
(***************************************************************************)
\* arr[i] with i outside the array: numpy raises IndexError
ReadsOutside(arr, i) == i \notin DOMAIN arr

Abs(x) == IF x < 0 THEN 0 - x ELSE x

\* lines 300, 305, 306: abs(a * v[0] + b * v[1] + c * v[3] + d) / sqrt(a ** 2
\* + b ** 2 + c ** 2), exact for a normal along a coordinate axis. The third
\* term reads v[3]
plane_distance(v, normal, point) ==
    LET a == normal[0]
        b == normal[1]
        c == normal[2]
        d == 0 - (a * point[0] + b * point[1] + c * point[2])
    IN  Abs(a * v[0] + b * v[1] + c * v[3] + d) \div Norm(normal)

\* lines 293-312. coord has the indices 0, 1, 2, so the read of
\* self.coord[3] on line 300 raises IndexError before coord is assigned
mirror(coord, normal, point) ==
    IF ReadsOutside(coord, 3)
    THEN [outcome |-> "IndexError", coord |-> coord]
    ELSE LET n == Normalized(normal)
             distance == plane_distance(coord, normal, point)
             test1 == [k \in DOMAIN coord |-> coord[k] + 2 * n[k] * distance]
             test2 == [k \in DOMAIN coord |-> coord[k] - 2 * n[k] * distance]
         IN  [outcome |-> "returned",
              coord |-> IF plane_distance(test1, normal, point)
                               < plane_distance(test2, normal, point)
                        THEN test1 ELSE test2]

\* the plane names that xyz_mirror matches
PlaneNames == {"xy", "ab", "xz", "ac", "yz", "bc"}

\* lines 321-327; a name that matches no case falls through the match
\* statement and nothing is done
xyz_mirror(coord, plane, plane_point) ==
    CASE plane \in {"xy", "ab"} -> mirror(coord, Vec(0, 0, 1), plane_point)
      [] plane \in {"xz", "ac"} -> mirror(coord, Vec(0, 1, 0), plane_point)
      [] plane \in {"yz", "bc"} -> mirror(coord, Vec(1, 0, 0), plane_point)
      [] OTHER -> [outcome |-> "returned", coord |-> coord]

(***************************************************************************)
(* SpecVector: one vector, atom 0 of a list of one atom, and calls of its  *)
(* rotate, mirror and xyz_mirror with arrays as arguments                  *)
(***************************************************************************)
\* the largest coordinate, in size, of a vector that a method is called on
MaxCoord == 1

Points == {Vec(x, y, z) : x \in (0 - MaxCoord) .. MaxCoord,
                          y \in (0 - MaxCoord) .. MaxCoord,
                          z \in (0 - MaxCoord) .. MaxCoord}

\* the points passed as axis_point, point and plane_point: the default
\* np.zeros(3) and two others
AnchorPoints == {Vec(0, 0, 0), Vec(1, 0, 0), Vec(0, 1, 1)}

\* directions along the coordinate axes, of length 1 and 2
AxisVectors ==
    {[k \in 0 .. 2 |-> IF k = axis THEN len ELSE 0] :
        axis \in 0 .. 2, len \in {-2, -1, 1, 2}}

\* the angles, in degrees, whose sine and cosine are whole numbers
QuarterTurns == {0, 90, 180, 270}

\* a method of the vector is called only while the vector is in the box
InBox(v) == v \in Points

\* the frame of a call on the vector that runs in one step
VectorCall(name, arguments, result) ==
    /\ pc = "idle"
    /\ InBox(atoms[0])
    /\ op' = name
    /\ args' = arguments
    /\ atoms' = [atoms EXCEPT ![0] = result.coord]
    /\ outcome' = result.outcome
    /\ before' = atoms
    /\ pc' = "done"
    /\ ids' = <<0>>
    /\ delta' = 0
    /\ subsets' = NoSubsets
    /\ startpoint' = 0
    /\ excluded' = TupleOf({})
    /\ inside' = NoArray
    /\ checked' = NoArray
    /\ first_fragment' = NoArray
    /\ second_fragment' = NoArray
    /\ ret' = NoRet
    /\ UNCHANGED <<connectivity_graph, atom_vars>>

\* self.atoms[0].rotate(angle, axis_vector, axis_point)
Call_rotate(angle, axis_vector, axis_point) ==
    LET ran == RunStatements(atoms,
                   << RotateCall(0, angle, axis_vector, ArrayObject(axis_point)) >>)
    IN  VectorCall("rotate",
                   [angle |-> angle, axis_vector |-> axis_vector, point |-> axis_point],
                   [outcome |-> ran.outcome, coord |-> ran.atoms[0]])

\* self.atoms[0].mirror(normal, point)
Call_mirror(normal, point) ==
    VectorCall("mirror", [normal |-> normal, point |-> point],
               mirror(atoms[0], normal, point))

\* self.atoms[0].xyz_mirror(plane, plane_point)
Call_xyz_mirror(plane, plane_point) ==
    VectorCall("xyz_mirror", [plane |-> plane, point |-> plane_point],
               xyz_mirror(atoms[0], plane, plane_point))

InitVector ==
    /\ atoms \in [Indices(1) -> Points]
    /\ before = atoms
    /\ connectivity_graph = NoGraph
    /\ BlankAtoms(atoms)
    /\ NothingCached
    /\ InitCall

NextVector ==
    \/ \E angle \in QuarterTurns, axis_vector \in AxisVectors, axis_point \in AnchorPoints :
          Call_rotate(angle, axis_vector, axis_point)
    \/ \E normal \in AxisVectors, point \in AnchorPoints : Call_mirror(normal, point)
    \/ \E plane \in PlaneNames \cup {"zz"}, plane_point \in AnchorPoints :
          Call_xyz_mirror(plane, plane_point)
    \/ Continue

SpecVector == InitVector /\ [][NextVector]_vars

(***************************************************************************)
(* SpecMoves: a small molecule whose atoms the caller moves between calls  *)
(* of get_connectivity_matrix and change_bond                              *)
(***************************************************************************)
\* atoms of the molecule whose atoms are moved
MaxMovedAtoms == 3

\* the caller assigns molecule.atoms[k].coord
move_atom(k, p) ==
    /\ pc = "idle"
    /\ atoms[k] # p
    /\ atoms' = [atoms EXCEPT ![k] = p]
    /\ before' = atoms'
    /\ UNCHANGED <<connectivity_graph, op, ids, delta, subsets, pc, startpoint,
                   excluded, inside, checked, first_fragment, second_fragment,
                   outcome, ret, atom_vars, args>>

InitMoves ==
    /\ atoms \in [Indices(MaxMovedAtoms) -> GridPoints]
    /\ before = atoms
    /\ connectivity_graph = NoGraph
    /\ BlankAtoms(atoms)
    /\ NothingCached
    /\ InitCall

NextMoves ==
    \/ get_connectivity_matrix
    \/ \E k \in Indices(MaxMovedAtoms), p \in GridPoints : move_atom(k, p)
    \/ \E bond \in IdTuples(NumAtoms(atoms), 2), d \in BondDeltas :
          Call_change_bond(bond, d)
    \/ flood_fill_search_raise
    \/ Continue

SpecMoves == InitMoves /\ [][NextMoves]_vars

(***************************************************************************)
(* Claims about ConnectivityGraph                                          *)
(***************************************************************************)
\* the unexcluded vertices one edge away from a vertex of S
StepFrom(nodes, size, ex, S) ==
    {j \in Indices(size) \ ex : \E i \in S : Edge(nodes, i, j)}

RECURSIVE Closure(_, _, _, _)
Closure(nodes, size, ex, S) ==
    LET T == S \cup StepFrom(nodes, size, ex, S)
    IN  IF T = S THEN S ELSE Closure(nodes, size, ex, T)

\* the vertices reachable from start by a path of one or more edges whose
\* vertices after start are not excluded
ReachableByEdges(nodes, size, start, ex) ==
    Closure(nodes, size, ex, StepFrom(nodes, size, ex, {start}))

\* the readings of "reachable from start": with the start itself (the path of
\* no edges), without it, or with it only when an edge leads back to it; and
\* nothing at all when the start is excluded
ReachableSets(nodes, size, start, ex) ==
    LET R == ReachableByEdges(nodes, size, start, ex)
    IN  {R, R \cup ({start} \ ex), R \ {start}}
            \cup (IF start \in ex THEN {{}} ELSE {})

FloodFillReturned == op = "flood_fill_search" /\ pc = "done" /\ outcome = "returned"

\* C1: flood_fill_search(start, excluded) returns exactly the set of vertices
\* reachable from start by a path of edges with no excluded vertex on it,
\* under either reading of whether the start itself counts as reached.
C1_FloodFillReturnsReachable ==
    FloodFillReturned =>
        Members(ret.inside) \in
            ReachableSets(connectivity_graph.nodes, connectivity_graph.size,
                          ids[1], excluded.items)

\* C2: every call of flood_fill_search reaches its return.
C2_FloodFillTerminates ==
    (op = "flood_fill_search" /\ pc = "ff_mark") ~> (pc = "done")

\* C3: subsets_connected(A, B) returns True if and only if an edge joins a
\* vertex of fragment A to a vertex of fragment B.
C3_SubsetsConnectedIff ==
    (op = "subsets_connected" /\ pc = "done" /\ outcome = "returned") =>
        (ret.connected <=>
            \E a \in Members(subsets[1]), b \in Members(subsets[2]) :
                Edge(connectivity_graph.nodes, a, b))


(***************************************************************************)
(* Claims about the editors of Molecule                                    *)
(***************************************************************************)
\* the atoms that define the coordinate of the call
IdSet == {ids[n] : n \in DOMAIN ids}

\* the atoms a search was told to leave out, whichever way they were written
ExcludedAtoms(ex) == IF ex.kind = "int" THEN {ex.value} ELSE ex.items

\* a call of an editor on a molecule whose graph get_connectivity_matrix built
EditorOnGraph == op \in Editors /\ ~connectivity_graph.none

\* such a call has ended, by a return or by an exception
EditorEnded == EditorOnGraph /\ pc = "done"

\* the side of the coordinate that holds the start of a search: the start and
\* every atom joined to it by bonds that avoid the excluded atoms
Side(start, ex) ==
    Closure(connectivity_graph.nodes, connectivity_graph.size,
            ExcludedAtoms(ex), {start})

SideOne == Side(FirstStart(op, ids), FirstExcluded(op, ids))

SideTwo == Side(SecondStart(op, ids), SecondExcluded(op, ids))

\* a bond between two atoms that follow one another in ids
CoordinateBond(a, b) ==
    \E n \in 1 .. (Len(ids) - 1) : {a, b} = {ids[n], ids[n + 1]}

\* the two sides meet away from the coordinate itself: they share an atom or
\* a bond other than the coordinate's own joins them
CrossLinkedRing ==
    \E a \in SideOne, b \in SideTwo :
        a = b \/ (Edge(connectivity_graph.nodes, a, b) /\ ~CoordinateBond(a, b))

\* the graph without the bond a-b
WithoutBond(nodes, a, b) ==
    [i \in DOMAIN nodes |->
        [j \in DOMAIN nodes[i] |-> IF {i, j} = {a, b} THEN 0 ELSE nodes[i][j]]]

\* no ring of bonds: taking any bond between two atoms away separates them
Acyclic(nodes, size) ==
    \A a, b \in Indices(size) :
        (a < b /\ Edge(nodes, a, b)) =>
            b \notin Closure(WithoutBond(nodes, a, b), size, {}, {a})

Bonded(a, b) == a # b /\ Edge(connectivity_graph.nodes, a, b)

\* no two atoms of the coordinate lie on one point
DistinctPoints == \A a, b \in IdSet : a # b => atoms[a] # atoms[b]

\* C4 as stated: on a graph built by get_connectivity_matrix the fragments an
\* editor obtains from flood_fill_search hold none of the atoms that define
\* the coordinate, the start atom of each search included.
C4_FragmentsHoldNoDefiningAtom ==
    EditorOnGraph =>
        /\ Members(first_fragment) \cap IdSet = {}
        /\ Members(second_fragment) \cap IdSet = {}

\* C4 as the code has it: a fragment an editor obtains from flood_fill_search
\* holds none of the defining atoms passed to that search as excluded, and it
\* does hold the start atom of the search, which get_connectivity_matrix
\* links to itself.
C4_FragmentsHoldStartNotExcluded ==
    op \in Editors =>
        /\ first_fragment # NoArray =>
              /\ Members(first_fragment)
                     \cap ExcludedAtoms(FirstExcluded(op, ids)) = {}
              /\ FirstStart(op, ids) \in Members(first_fragment)
        /\ second_fragment # NoArray =>
              /\ Members(second_fragment)
                     \cap ExcludedAtoms(SecondExcluded(op, ids)) = {}
              /\ SecondStart(op, ids) \in Members(second_fragment)

\* both searches of an editor have returned on a built graph, and the start
\* of each is bonded to a defining atom that the search excluded
C4_Witness ==
    /\ EditorOnGraph
    /\ DistinctPoints
    /\ first_fragment # NoArray
    /\ second_fragment # NoArray
    /\ \E e \in ExcludedAtoms(FirstExcluded(op, ids)) : Bonded(FirstStart(op, ids), e)
    /\ \E e \in ExcludedAtoms(SecondExcluded(op, ids)) : Bonded(SecondStart(op, ids), e)

\* C5: in a ring, where the two sides of the coordinate are cross-linked, a
\* call of change_bond, change_angle or change_dihedral leaves the
\* coordinates of every atom other than the defining atoms unchanged.
C5_OtherAtomsKeptWhenCrossLinked ==
    (EditorOnGraph /\ CrossLinkedRing) =>
        \A k \in DOMAIN atoms \ IdSet : atoms[k] = before[k]

\* an editor has run its cross-linked branch to the end of the call on a ring
\* that has an atom outside the coordinate
C5_Witness ==
    /\ EditorEnded
    /\ DistinctPoints
    /\ CrossLinkedRing
    /\ subsets # NoSubsets
    /\ ret.connected
    /\ DOMAIN atoms \ IdSet # {}

\* C6: on an acyclic graph that holds the bond i-j, after change_bond((i, j),
\* delta) the distance between atoms i and j is the distance before plus
\* delta.
C6_BondLengthChangesByDelta ==
    (/\ EditorEnded
     /\ op = "change_bond"
     /\ Acyclic(connectivity_graph.nodes, connectivity_graph.size)
     /\ Bonded(ids[1], ids[2])
     /\ DistinctPoints) =>
        \E n \in 0 .. UnitLength :
            /\ DistSq(before[ids[1]], before[ids[2]]) = n * n
            /\ DistSq(atoms[ids[1]], atoms[ids[2]]) = (n + delta) * (n + delta)

\* C7: change_bond on a bond i-j whose sides are not cross-linked moves atom i
\* and every atom on its side by one common vector that is not zero, and
\* atom j and every atom on its side by the opposite vector.
C7_BondMovesBothSidesRigidly ==
    (/\ EditorEnded
     /\ op = "change_bond"
     /\ Bonded(ids[1], ids[2])
     /\ DistinctPoints
     /\ ~CrossLinkedRing) =>
        LET v == VSub(atoms[ids[1]], before[ids[1]])
        IN  /\ v # Vec(0, 0, 0)
            /\ \A a \in SideOne : VSub(atoms[a], before[a]) = v
            /\ \A b \in SideTwo : VSub(before[b], atoms[b]) = v

\* the part of r.s that lies across the unit vector a
PerpDot(r, s, a) == Dot(r, s) - Dot(r, a) * Dot(s, a)

\* s is r turned by half a right angle about the unit vector a
HalfRightTurn(r, s, a) ==
    /\ Dot(r, a) = Dot(s, a)
    /\ PerpDot(r, r, a) = PerpDot(s, s, a)
    /\ PerpDot(r, s, a) >= 0
    /\ 2 * PerpDot(r, s, a) * PerpDot(r, s, a) = PerpDot(r, r, a) * PerpDot(r, r, a)

\* the sense of the turn from r to s about a: positive, negative or zero
Sense(r, s, a) == Dot(a, Cross(r, s))

\* C8: on the chain A-B-C-D with unit bonds and its graph built,
\* change_dihedral((A, B, C, D), 90) returns; B and C stay where they were;
\* A and D are turned about the axis B-C by 45 degrees in opposite senses;
\* the distances A-B, B-C and C-D are what they were.
C8_DihedralOfUnitChain ==
    (/\ EditorEnded
     /\ op = "change_dihedral"
     /\ before \in {UnitChain, UnitStairs}
     /\ ids = <<0, 1, 2, 3>>
     /\ delta = 90) =>
        LET axis == [k \in 0 .. 2 |-> (before[1][k] - before[2][k]) \div UnitLength]
            rA == VSub(before[0], before[1])
            sA == VSub(atoms[0], before[1])
            rD == VSub(before[3], before[1])
            sD == VSub(atoms[3], before[1])
        IN  /\ outcome = "returned"
            /\ atoms[1] = before[1]
            /\ atoms[2] = before[2]
            /\ HalfRightTurn(rA, sA, axis)
            /\ HalfRightTurn(rD, sD, axis)
            /\ \/ Sense(rA, sA, axis) > 0 /\ Sense(rD, sD, axis) < 0
               \/ Sense(rA, sA, axis) < 0 /\ Sense(rD, sD, axis) > 0
               \/ Sense(rA, sA, axis) = 0 /\ Sense(rD, sD, axis) = 0
            /\ \A n \in 0 .. 2 :
                  DistSq(atoms[n], atoms[n + 1]) = DistSq(before[n], before[n + 1])

\* the atoms that the statements of a branch rotate
StatementTargets(calls) == {calls[n].atom : n \in DOMAIN calls}

\* C9: change_angle((i, p, k), delta) in a ring, where the sides of i and k
\* are cross-linked, returns having edited both outer atoms: its branch
\* rotates i and k, each once; i and k are turned about p by half of delta in
\* opposite senses; p stays where it was.
C9_AngleCrossLinkedEditsBothOuterAtoms ==
    (/\ EditorEnded
     /\ op = "change_angle"
     /\ delta = 90
     /\ Bonded(ids[1], ids[2])
     /\ Bonded(ids[2], ids[3])
     /\ CrossLinkedRing
     /\ NormSq(Cross(VSub(before[ids[1]], before[ids[2]]),
                     VSub(before[ids[3]], before[ids[2]]))) = 1) =>
        LET pivot == before[ids[2]]
            v1 == VSub(before[ids[1]], pivot)
            v2 == VSub(before[ids[3]], pivot)
            axis == Cross(v1, v2)
            w1 == VSub(atoms[ids[1]], pivot)
            w2 == VSub(atoms[ids[3]], pivot)
        IN  /\ outcome = "returned"
            /\ StatementTargets(AngleCrossLinked(ids, delta, axis)) = {ids[1], ids[3]}
            /\ atoms[ids[2]] = pivot
            /\ HalfRightTurn(v1, w1, axis)
            /\ HalfRightTurn(v2, w2, axis)
            /\ \/ Sense(v1, w1, axis) > 0 /\ Sense(v2, w2, axis) < 0
               \/ Sense(v1, w1, axis) < 0 /\ Sense(v2, w2, axis) > 0

\* C10: on an acyclic graph that holds the bonds i-p and p-k, after
\* change_angle((i, p, k), delta) the angle i-p-k differs from the angle
\* before by delta, and the distances p-i and p-k are what they were.
C10_AngleChangesByDelta ==
    (/\ EditorEnded
     /\ op = "change_angle"
     /\ delta = 90
     /\ Acyclic(connectivity_graph.nodes, connectivity_graph.size)
     /\ Bonded(ids[1], ids[2])
     /\ Bonded(ids[2], ids[3])
     /\ Cross(VSub(before[ids[1]], before[ids[2]]),
              VSub(before[ids[3]], before[ids[2]])) # Vec(0, 0, 0)) =>
        LET v1 == VSub(before[ids[1]], before[ids[2]])
            v2 == VSub(before[ids[3]], before[ids[2]])
            w1 == VSub(atoms[ids[1]], atoms[ids[2]])
            w2 == VSub(atoms[ids[3]], atoms[ids[2]])
        IN  /\ NormSq(w1) = NormSq(v1)
            /\ NormSq(w2) = NormSq(v2)
            \* cos of the new angle is -sin or +sin of the old one
            /\ Dot(w1, w2) * Dot(w1, w2) = NormSq(Cross(v1, v2))

(***************************************************************************)
(* Claims about Vector                                                     *)
(***************************************************************************)
Identity == [i \in 0 .. 2 |-> [j \in 0 .. 2 |-> IF i = j THEN 1 ELSE 0]]

Transpose(m) == [i \in 0 .. 2 |-> [j \in 0 .. 2 |-> m[j][i]]]

MatMul(m, n) ==
    [i \in 0 .. 2 |-> [j \in 0 .. 2 |->
        m[i][0] * n[0][j] + m[i][1] * n[1][j] + m[i][2] * n[2][j]]]

Det(m) ==
    m[0][0] * (m[1][1] * m[2][2] - m[1][2] * m[2][1])
        - m[0][1] * (m[1][0] * m[2][2] - m[1][2] * m[2][0])
        + m[0][2] * (m[1][0] * m[2][1] - m[1][1] * m[2][0])

\* C11: for a whole number of quarter turns about an axis along a coordinate
\* axis, the matrix that rotate builds is a proper rotation (its transpose
\* times itself is the identity and its determinant is 1), and rotate leaves
\* the distance of the vector to axis_point as it was.
C11_RotateMatrixIsProperRotation ==
    (op = "rotate" /\ pc = "done") =>
        LET matrix == rotation_matrix(args.angle, args.axis_vector)
        IN  /\ outcome = "returned"
            /\ MatMul(Transpose(matrix), matrix) = Identity
            /\ Det(matrix) = 1
            /\ DistSq(atoms[0], args.point) = DistSq(before[0], args.point)

(***************************************************************************)
(* Claims about Molecule.get_connectivity_matrix                           *)
(***************************************************************************)
\* C12: whenever the molecule has a connectivity graph, whatever calls of
\* get_connectivity_matrix, moves of atoms and edits came before, the
\* adjacency matrix is symmetric: nodes[i][j] = nodes[j][i] for all i, j
\* below size.
C12_NodesSymmetric ==
    ~connectivity_graph.none =>
        \A i, j \in Indices(connectivity_graph.size) :
            connectivity_graph.nodes[i][j] = connectivity_graph.nodes[j][i]

\* an edit has ended on a graph that still holds a bond between two atoms
\* that were moved apart after it was built
C12_Witness ==
    /\ EditorEnded
    /\ \E i, j \in Indices(connectivity_graph.size) :
          /\ i # j
          /\ connectivity_graph.nodes[i][j] = 1
          /\ DistSq(atoms[i], atoms[j]) > CutoffSq

\* C13: the call of get_connectivity_matrix that creates the graph leaves,
\* for every two distinct atoms i and j, nodes[i][j] and nodes[j][i] at 1 if
\* the distance between the atoms is at most the cutoff, a distance equal to
\* the cutoff included, and at 0 if it is more.
C13_FirstBuildMatchesCutoff ==
    [][(connectivity_graph.none /\ ~connectivity_graph'.none) =>
          \A i, j \in DOMAIN atoms :
              i # j =>
                  /\ connectivity_graph'.nodes[i][j]
                         = (IF DistSq(atoms[i], atoms[j]) <= CutoffSq THEN 1 ELSE 0)
                  /\ connectivity_graph'.nodes[j][i]
                         = connectivity_graph'.nodes[i][j]]_vars

\* get_connectivity_matrix has returned a graph in which every bond is
\* between atoms within the cutoff, one pair of atoms lies exactly at the
\* cutoff and is bonded, and one pair lies farther and is not
C13_Witness ==
    /\ op = "get_connectivity_matrix"
    /\ pc = "done"
    /\ outcome = "returned"
    /\ \A i, j \in DOMAIN atoms :
          connectivity_graph.nodes[i][j] = 1 => DistSq(atoms[i], atoms[j]) <= CutoffSq
    /\ \E i, j \in DOMAIN atoms :
          DistSq(atoms[i], atoms[j]) = CutoffSq /\ connectivity_graph.nodes[i][j] = 1
    /\ \E i, j \in DOMAIN atoms :
          DistSq(atoms[i], atoms[j]) > CutoffSq /\ connectivity_graph.nodes[i][j] = 0

(***************************************************************************)
(* Claims about the editors and the graph they need                        *)
(***************************************************************************)
\* C14: a call of change_bond, change_angle or change_dihedral on a molecule
\* whose connectivity graph was never built builds the graph and goes on to
\* the edit: when the call has ended the graph exists and the call did not
\* fail for want of it.
C14_EditorBuildsMissingGraph ==
    (op \in Editors /\ pc = "done") =>
        /\ ~connectivity_graph.none
        /\ outcome # "AttributeError"

(***************************************************************************)
(* Atom: __init__, assign_weight, __eq__, __ne__                           *)
(*                                                                         *)
(* An atom is its coord, its symbol and its weight.  Weights are in        *)
(* ten-thousandths of an atomic mass unit.  In SpecAtoms and SpecMolecule  *)
(* lengths are integers in units of 0.0005, half the tolerance of          *)
(* Atom.__eq__.                                                            *)
(***************************************************************************)
\* the entries of element_weight for H, C, N and O
element_weight == [H |-> 10075, C |-> 120106, N |-> 140065, O |-> 159990]

\* kasuga_io.quit_with_error: the fail-fast reporting function; it ends the
\* operation that invoked it, and this is how that operation ended
quit_with_error == "quit_with_error"

\* Atom.assign_weight on an atom whose fields are sym and w
assign_weight(sym, w) ==
    IF sym \in DOMAIN element_weight
    THEN [outcome |-> "returned", weight |-> element_weight[sym]]
    ELSE [outcome |-> quit_with_error, weight |-> w]

\* Atom.__init__(symbol): the fields are set to 0.0, "" and zeros(3); the
\* argument is compared with "" and is not stored
Atom_init(sym) ==
    LET self == [weight |-> 0, symbol |-> "", coord |-> Zeros(3)]
    IN  IF sym # ""
        THEN LET assigned == assign_weight(self.symbol, self.weight)
             IN  [outcome |-> assigned.outcome,
                  self |-> [self EXCEPT !.weight = assigned.weight]]
        ELSE [outcome |-> "returned", self |-> self]

\* 0.001, the tolerance of Atom.__eq__ and Atom.__ne__, squared
ToleranceSq == 4

\* as Atom.__eq__, with the tolerance itself counted as equal
Atom_eq_at_tolerance(self, other) ==
    IF DistSq(self.coord, other.coord) <= ToleranceSq /\ self.symbol = other.symbol
    THEN TRUE
    ELSE FALSE

\* Atom.__eq__(self, other)
Atom_eq(self, other) ==
    IF DistSq(self.coord, other.coord) < ToleranceSq /\ self.symbol = other.symbol
    THEN TRUE
    ELSE FALSE

\* Atom.__ne__(self, other)
Atom_ne(self, other) ==
    IF DistSq(self.coord, other.coord) < ToleranceSq /\ self.symbol = other.symbol
    THEN FALSE
    ELSE TRUE

\* self.atoms[i] as an object
AtomAt(i) == [coord |-> atoms[i], symbol |-> symbol[i], weight |-> weight[i]]

\* a method of an Atom or of the Molecule ran from its call to its end; the
\* fields it assigned are primed by the action that uses this
MethodCall(name, indices, arguments, result) ==
    /\ pc = "idle"
    /\ op' = name
    /\ ids' = indices
    /\ args' = arguments
    /\ outcome' = result.outcome
    /\ ret' = result.ret
    /\ before' = atoms
    /\ pc' = "done"
    /\ delta' = 0
    /\ subsets' = NoSubsets
    /\ startpoint' = 0
    /\ excluded' = TupleOf({})
    /\ inside' = NoArray
    /\ checked' = NoArray
    /\ first_fragment' = NoArray
    /\ second_fragment' = NoArray
    /\ UNCHANGED <<atoms, connectivity_graph>>

\* Atom(sym): ret is the new object as __init__ left it
Call_Atom(sym) ==
    LET made == Atom_init(sym)
    IN  /\ MethodCall("Atom", <<>>, [symbol |-> sym],
                      [outcome |-> made.outcome, ret |-> made.self])
        /\ UNCHANGED atom_vars

\* self.atoms[k].assign_weight()
Call_assign_weight(k) ==
    LET assigned == assign_weight(symbol[k], weight[k])
    IN  /\ MethodCall("assign_weight", <<k>>, NoArgs,
                      [outcome |-> assigned.outcome, ret |-> NoRet])
        /\ weight' = [weight EXCEPT ![k] = assigned.weight]
        /\ UNCHANGED <<symbol, molecular_formula, mass_center, inertia_eigenvectors>>

\* self.atoms[i] == self.atoms[j]
Call_Atom_eq(i, j) ==
    /\ MethodCall("Atom_eq", <<i, j>>, NoArgs,
                  [outcome |-> "returned", ret |-> Atom_eq(AtomAt(i), AtomAt(j))])
    /\ UNCHANGED atom_vars

\* self.atoms[i] != self.atoms[j]
Call_Atom_ne(i, j) ==
    /\ MethodCall("Atom_ne", <<i, j>>, NoArgs,
                  [outcome |-> "returned", ret |-> Atom_ne(AtomAt(i), AtomAt(j))])
    /\ UNCHANGED atom_vars

(***************************************************************************)
(* SpecAtoms: atoms as the readers make them (Atom(), then the symbol and  *)
(* the coord assigned), constructed, weighed and compared                  *)
(***************************************************************************)
MaxComparedAtoms == 2

\* symbols an atom carries: three of the table, one that is not in it
Symbols == {"H", "O", "Xx"}

\* points of one line that are 0, 0.0005 and 0.001 apart
NearPoints == {Vec(0, 0, 0), Vec(1, 0, 0), Vec(2, 0, 0)}

InitAtoms ==
    /\ atoms \in [Indices(MaxComparedAtoms) -> NearPoints]
    /\ before = atoms
    /\ connectivity_graph = NoGraph
    /\ symbol \in [Indices(MaxComparedAtoms) -> Symbols]
    /\ weight = [i \in Indices(MaxComparedAtoms) |-> 0]
    /\ NothingCached
    /\ InitCall

NextAtoms ==
    \/ \E sym \in Symbols \cup {""} : Call_Atom(sym)
    \/ \E k \in DOMAIN atoms : Call_assign_weight(k)
    \/ \E i \in DOMAIN atoms, j \in DOMAIN atoms : Call_Atom_eq(i, j)
    \/ \E i \in DOMAIN atoms, j \in DOMAIN atoms : Call_Atom_ne(i, j)
    \/ Continue

SpecAtoms == InitAtoms /\ [][NextAtoms]_vars

(***************************************************************************)
(* Claims about Atom                                                       *)
(***************************************************************************)
\* the two atoms of a comparison have the same symbol and are less than
\* 0.001 apart
SameAtom(i, j) ==
    /\ symbol[i] = symbol[j]
    /\ DistSq(atoms[i], atoms[j]) < ToleranceSq

\* C17: a == b is True if and only if the two atoms have the same symbol and
\* are strictly less than 0.001 apart; b == a gives the same answer, and
\* a != b is the negation of a == b.
C17_AtomEqualityWithinTolerance ==
    (op \in {"Atom_eq", "Atom_ne"} /\ pc = "done") =>
        LET a == AtomAt(ids[1])
            b == AtomAt(ids[2])
        IN  /\ outcome = "returned"
            /\ op = "Atom_eq" => (ret <=> SameAtom(ids[1], ids[2]))
            /\ op = "Atom_ne" => (ret <=> ~SameAtom(ids[1], ids[2]))
            /\ Atom_eq(a, b) = Atom_eq(b, a)
            /\ Atom_ne(a, b) = ~Atom_eq(a, b)

\* two atoms of the same symbol exactly 0.001 apart were compared with ==
\* and are not equal
C17_Witness ==
    /\ op = "Atom_eq"
    /\ pc = "done"
    /\ symbol[ids[1]] = symbol[ids[2]]
    /\ DistSq(atoms[ids[1]], atoms[ids[2]]) = ToleranceSq
    /\ ret = FALSE

\* C18: Atom(symbol) with a symbol of the weight table completes without
\* error, and the atom it yields has that symbol and the table's weight for it.
C18_AtomOfKnownSymbol ==
    (op = "Atom" /\ pc = "done" /\ args.symbol \in DOMAIN element_weight) =>
        /\ outcome = "returned"
        /\ ret.symbol = args.symbol
        /\ ret.weight = element_weight[args.symbol]

(***************************************************************************)
(* Molecule: get_molecular_formula, __eq__, get_mass_center,               *)
(* get_inertia_vectors                                                     *)
(***************************************************************************)
\* Vector(): an object whose coord is zeros(3), as a cached value
VectorObject == "Vector()"

\* an array whose entries are nan, as a cached value
NanArray == "nan"

\* np.zeros of the shape the code asks for, as a cached value
ZerosArray == "zeros"

\* what np.linalg.eig returned, as a cached value
EigArrays == "eig"

\* the symbols in the order list.sort() puts them
SymbolOrder == << "H", "O", "Xx" >>

\* atom_list of get_molecular_formula: the symbols of the atoms, each once,
\* sorted
atom_list(syms) ==
    SelectSeq(SymbolOrder, LAMBDA s : \E i \in DOMAIN syms : syms[i] = s)

\* a python str as an object: it has a value and no coord
StrObject(s) == [value |-> s]

\* atom_in_formula == atom_in_list, a str against an Atom: str.__eq__ does
\* not know the Atom, so python asks Atom.__eq__(atom_in_list,
\* atom_in_formula), which reads the coord of its argument first
str_eq_Atom(str, atom) ==
    IF "coord" \in DOMAIN str
    THEN [outcome |-> "returned", value |-> Atom_eq(atom, str)]
    ELSE [outcome |-> "AttributeError", value |-> FALSE]

RECURSIVE JoinFormula(_, _, _)
\* result of get_molecular_formula: each symbol of the list followed by
\* str() of its count
JoinFormula(list, count_list, i) ==
    IF i > Len(list) THEN ""
    ELSE list[i] \o ToString(count_list[i]) \o JoinFormula(list, count_list, i + 1)

\* Molecule.get_molecular_formula on the atoms ats with symbols syms and the
\* cached formula cached
get_molecular_formula(ats, syms, cached) ==
    LET started == IF cached = None THEN "" ELSE cached
        list == atom_list(syms)
        compared(i1, i2) ==
            str_eq_Atom(StrObject(list[i1]),
                        [coord |-> ats[i2], symbol |-> syms[i2]])
        count_list == [i1 \in 1 .. Len(list) |->
                          Cardinality({i2 \in DOMAIN ats : compared(i1, i2).value})]
    IN  IF \E i1 \in 1 .. Len(list), i2 \in DOMAIN ats :
               compared(i1, i2).outcome # "returned"
        THEN [outcome |-> "AttributeError", ret |-> NoRet,
              molecular_formula |-> started]
        ELSE [outcome |-> "returned",
              ret |-> JoinFormula(list, count_list, 1),
              molecular_formula |-> JoinFormula(list, count_list, 1)]

RECURSIVE ISqrtBetween(_, _, _)
\* the largest whole number between lo and hi whose square is at most n
ISqrtBetween(n, lo, hi) ==
    IF lo = hi THEN lo
    ELSE LET mid == (lo + hi + 1) \div 2
         IN  IF mid * mid <= n THEN ISqrtBetween(n, mid, hi)
             ELSE ISqrtBetween(n, lo, mid - 1)

\* Vector.distance, rounded down to a whole number of units
distance(a, b) ==
    LET n == DistSq(a, b)
    IN  ISqrtBetween(n, 0, IF n < 46340 THEN n ELSE 46340)

\* 1000, the starting current_min of Molecule.__eq__
NoMatchDistance == 2000000

\* 0.05, the largest diff of two equal molecules
MoleculeTolerance == 100

RECURSIVE SumOver(_, _)
SumOver(f, S) ==
    IF S = {} THEN 0
    ELSE LET i == CHOOSE j \in S : TRUE IN f[i] + SumOver(f, S \ {i})

\* Molecule.__eq__(self, other); a molecule is its atoms and their symbols
Molecule_eq(self, other, cached) ==
    LET first == get_molecular_formula(self.atoms, self.symbol, cached)
        second == get_molecular_formula(self.atoms, self.symbol,
                                        first.molecular_formula)
        current_min == [i1 \in DOMAIN self.atoms |->
            LET same == {i2 \in DOMAIN other.atoms :
                             self.symbol[i1] = other.symbol[i2]}
                nearer == {distance(self.atoms[i1], other.atoms[i2]) : i2 \in same}
                             \cup {NoMatchDistance}
            IN  CHOOSE d \in nearer : \A e \in nearer : d <= e]
        diff == SumOver(current_min, DOMAIN self.atoms)
    IN  IF first.outcome # "returned"
        THEN [outcome |-> first.outcome, ret |-> FALSE,
              molecular_formula |-> first.molecular_formula]
        ELSE IF second.outcome # "returned"
        THEN [outcome |-> second.outcome, ret |-> FALSE,
              molecular_formula |-> second.molecular_formula]
        ELSE [outcome |-> "returned",
              ret |-> IF first.ret # second.ret THEN FALSE
                      ELSE IF diff < MoleculeTolerance THEN TRUE ELSE FALSE,
              molecular_formula |-> second.molecular_formula]

\* np.zeros(3), the shape of every coord
CoordShape == << 3 >>

\* np.zeros((3, 1)), the shape of mass_vector
MassVectorShape == << 3, 1 >>

\* a shape with axes of length 1 put in front of it until it has n axes
Pad(shape, n) ==
    [i \in 1 .. n |-> IF i <= n - Len(shape) THEN 1 ELSE shape[i - (n - Len(shape))]]

\* the shape numpy gives the result of an operation on two arrays: the
\* shapes are aligned at the last axis and an axis of length 1 is stretched
Broadcast(s, t) ==
    LET n == IF Len(s) > Len(t) THEN Len(s) ELSE Len(t)
        a == Pad(s, n)
        b == Pad(t, n)
    IN  [i \in 1 .. n |-> IF a[i] = 1 THEN b[i] ELSE a[i]]

\* Molecule.get_mass_center on the atoms ats with symbols syms and the cached
\* mass centre cached.  The loop stops at the first atom whose symbol is not
\* a key of element_weight (KeyError) or whose weighted coord cannot be added
\* in place to mass_vector (ValueError); of no atoms the mass is 0.0 and the
\* division gives nan.
get_mass_center(ats, syms, cached) ==
    LET started == IF cached = None THEN VectorObject ELSE cached
        raised(i) ==
            IF syms[i] \notin DOMAIN element_weight THEN "KeyError"
            ELSE IF Broadcast(MassVectorShape, CoordShape) # MassVectorShape
                 THEN "ValueError"
                 ELSE "none"
        stops == {i \in DOMAIN ats : raised(i) # "none"}
        mass == SumOver([i \in DOMAIN ats |-> element_weight[syms[i]]], DOMAIN ats)
        mass_vector == [k \in 0 .. 2 |->
            SumOver([i \in DOMAIN ats |-> ats[i][k] * element_weight[syms[i]]],
                    DOMAIN ats)]
    IN  IF stops # {}
        THEN LET i == CHOOSE j \in stops : \A k \in stops : j <= k
             IN  [outcome |-> raised(i), ret |-> NoRet, mass_center |-> started]
        ELSE IF mass = 0
        THEN [outcome |-> "returned", ret |-> NanArray, mass_center |-> NanArray]
        ELSE LET centre == [k \in 0 .. 2 |-> mass_vector[k] \div mass]
             IN  [outcome |-> "returned", ret |-> centre, mass_center |-> centre]

\* Molecule.get_inertia_vectors.  The eigenvectors and eigenvalues are set to
\* zeros if either is None; the mass centre is computed if none is cached;
\* subtracting a cached Vector object from a coord is a TypeError, the weight
\* of an unknown symbol a KeyError, eig of a tensor of nan a LinAlgError, and
\* with no atoms the truth value of the comparison of two arrays at the end
\* is a ValueError.
get_inertia_vectors(ats, syms, cached, eigen) ==
    LET started == IF eigen = None THEN ZerosArray ELSE eigen
        centre == IF cached = None THEN get_mass_center(ats, syms, cached)
                  ELSE [outcome |-> "returned", ret |-> cached, mass_center |-> cached]
        ended(how, eig) ==
            [outcome |-> how, ret |-> NoRet, mass_center |-> centre.mass_center,
             inertia_eigenvectors |-> eig]
    IN  IF centre.outcome # "returned" THEN ended(centre.outcome, started)
        ELSE IF NumAtoms(ats) > 0 /\ centre.ret = VectorObject
        THEN ended("TypeError", started)
        ELSE IF \E i \in DOMAIN ats : syms[i] \notin DOMAIN element_weight
        THEN ended("KeyError", started)
        ELSE IF NumAtoms(ats) > 0 /\ centre.ret = NanArray
        THEN ended("LinAlgError", started)
        ELSE ended("ValueError", EigArrays)

\* self.get_molecular_formula()
Call_get_molecular_formula ==
    LET ran == get_molecular_formula(atoms, symbol, molecular_formula)
    IN  /\ MethodCall("get_molecular_formula", <<>>, NoArgs, ran)
        /\ molecular_formula' = ran.molecular_formula
        /\ UNCHANGED <<symbol, weight, mass_center, inertia_eigenvectors>>

\* self == other, where other has the atoms of self moved by translation
Call_Molecule_eq(translation) ==
    LET other == [atoms |-> [i \in DOMAIN atoms |->
                              [k \in 0 .. 2 |-> atoms[i][k] + translation[k]]],
                  symbol |-> symbol]
        ran == Molecule_eq([atoms |-> atoms, symbol |-> symbol], other,
                           molecular_formula)
    IN  /\ MethodCall("Molecule_eq", <<>>,
                      [other |-> other, translation |-> translation], ran)
        /\ molecular_formula' = ran.molecular_formula
        /\ UNCHANGED <<symbol, weight, mass_center, inertia_eigenvectors>>

\* self.get_mass_center()
Call_get_mass_center ==
    LET ran == get_mass_center(atoms, symbol, mass_center)
    IN  /\ MethodCall("get_mass_center", <<>>, NoArgs, ran)
        /\ mass_center' = ran.mass_center
        /\ UNCHANGED <<symbol, weight, molecular_formula, inertia_eigenvectors>>

\* self.get_inertia_vectors()
Call_get_inertia_vectors ==
    LET ran == get_inertia_vectors(atoms, symbol, mass_center, inertia_eigenvectors)
    IN  /\ MethodCall("get_inertia_vectors", <<>>, NoArgs, ran)
        /\ mass_center' = ran.mass_center
        /\ inertia_eigenvectors' = ran.inertia_eigenvectors
        /\ UNCHANGED <<symbol, weight, molecular_formula>>

(***************************************************************************)
(* SpecMolecule: a molecule of up to MaxListedAtoms atoms with their       *)
(* symbols, and the methods that read the symbols                          *)
(***************************************************************************)
MaxListedAtoms == 3

\* one unit of length of the source
Angstrom == 2000

\* the origin and the points one unit of length from it on the x and y axes
SpacedPoints == {Vec(0, 0, 0), Vec(Angstrom, 0, 0), Vec(0, Angstrom, 0)}

\* no translation, and the translation by (1, 1, 1)
Translations == {Vec(0, 0, 0), Vec(Angstrom, Angstrom, Angstrom)}

InitMolecule ==
    /\ \E n \in 0 .. MaxListedAtoms :
          /\ atoms \in [Indices(n) -> SpacedPoints]
          /\ symbol \in [Indices(n) -> Symbols]
    /\ weight = [i \in DOMAIN atoms |-> 0]
    /\ before = atoms
    /\ connectivity_graph = NoGraph
    /\ NothingCached
    /\ InitCall

NextMolecule ==
    \/ Call_get_molecular_formula
    \/ \E translation \in Translations : Call_Molecule_eq(translation)
    \/ Call_get_mass_center
    \/ Call_get_inertia_vectors
    \/ Continue

SpecMolecule == InitMolecule /\ [][NextMolecule]_vars

(***************************************************************************)
(* Claims about Molecule                                                   *)
(***************************************************************************)
\* the distinct symbols in lexicographic order, each followed by the number
\* of atoms that carry it
FormulaOf(syms) ==
    LET list == atom_list(syms)
    IN  JoinFormula(list,
                    [i \in 1 .. Len(list) |->
                        Cardinality({k \in DOMAIN syms : syms[k] = list[i]})],
                    1)

\* C15: for every atom list get_molecular_formula returns the distinct
\* symbols in lexicographic order, each followed by the number of atoms
\* carrying it, which is the same string for every order of the atoms.
C15_FormulaListsSymbolsWithCounts ==
    (op = "get_molecular_formula" /\ pc = "done") =>
        /\ outcome = "returned"
        /\ ret = FormulaOf(symbol)

\* C16: a molecule and the molecule of the same atoms translated rigidly
\* compare equal with ==.
C16_TranslatedMoleculeIsEqual ==
    (op = "Molecule_eq" /\ pc = "done") =>
        /\ outcome = "returned"
        /\ ret = TRUE

\* the call that starts in this step needs the weight of an atom whose
\* symbol is not in the weight table
NeedsUnknownWeight ==
    /\ pc = "idle"
    /\ pc' = "done"
    /\ \/ /\ op' = "assign_weight"
          /\ symbol[ids'[1]] \notin DOMAIN element_weight
       \/ /\ op' \in {"get_mass_center", "get_inertia_vectors"}
          /\ \E i \in DOMAIN symbol : symbol[i] \notin DOMAIN element_weight

\* C19: an operation that needs the weight of an atom whose symbol is not in
\* the weight table ends by invoking quit_with_error, and leaves the weights
\* of the atoms and the cached results of the molecule as they were.
C19_UnknownSymbolIsReported ==
    [][NeedsUnknownWeight =>
          /\ outcome' = quit_with_error
          /\ weight' = weight
          /\ mass_center' = mass_center
          /\ inertia_eigenvectors' = inertia_eigenvectors
          /\ molecular_formula' = molecular_formula]_vars

(***************************************************************************)
(* Claims about Vector.mirror                                              *)
(***************************************************************************)
\* the normal of the coordinate plane of a recognised plane name
PlaneNormal(plane) ==
    CASE plane \in {"xy", "ab"} -> Vec(0, 0, 1)
      [] plane \in {"xz", "ac"} -> Vec(0, 1, 0)
      [] plane \in {"yz", "bc"} -> Vec(1, 0, 0)

\* v reflected across the plane through point with the normal n: twice the
\* component of (v - point) along n is taken away
Reflected(v, n, point) ==
    LET along == Dot(VSub(v, point), n)
    IN  [k \in 0 .. 2 |-> v[k] - ((2 * along * n[k]) \div NormSq(n))]

\* C20: mirror(normal, point) with a non-zero normal completes and replaces
\* coord by its reflection across the plane through point with that normal;
\* xyz_mirror with one of the six plane names does the same for the
\* coordinate plane it names.
C20_MirrorReflectsAcrossPlane ==
    /\ (op = "mirror" /\ pc = "done") =>
          /\ outcome = "returned"
          /\ atoms[0] = Reflected(before[0], args.normal, args.point)
    /\ (op = "xyz_mirror" /\ pc = "done" /\ args.plane \in PlaneNames) =>
          /\ outcome = "returned"
          /\ atoms[0] = Reflected(before[0], PlaneNormal(args.plane), args.point)

(***************************************************************************)
(* Claims about the branch the editors take                                *)
(***************************************************************************)
\* the call has reached the test of subsets_connected and taken a branch
BranchTaken == EditorEnded /\ subsets # NoSubsets

\* at least three atoms, each bonded to another one
ThreeBondedAtoms ==
    /\ connectivity_graph.size >= 3
    /\ \A a \in Indices(connectivity_graph.size) :
          \E b \in Indices(connectivity_graph.size) : Bonded(a, b)

\* C21: an editor takes the restricted branch, which edits the defining atoms
\* only, if and only if the two fragments are cross-linked; on an acyclic
\* molecule of at least three bonded atoms it takes the whole-fragment
\* branch.
C21_RestrictedBranchIffCrossLinked ==
    /\ BranchTaken => (ret.connected <=> CrossLinkedRing)
    /\ (/\ EditorEnded
        /\ DistinctPoints
        /\ Acyclic(connectivity_graph.nodes, connectivity_graph.size)
        /\ ThreeBondedAtoms) =>
           /\ BranchTaken
           /\ ~ret.connected

(***************************************************************************)
(* Molecule.__ne__ and SpecCompare: a molecule compared with another one   *)
(***************************************************************************)
\* python's False as what __ne__ returns, written out because __ne__ can
\* also return None
PyFalse == "False"

PyTrue == "True"

\* Molecule.__ne__(self, other): lines 496-512.  If diff is not below 0.05
\* no return statement is reached and the result is None.
Molecule_ne(self, other, cached) ==
    LET first == get_molecular_formula(self.atoms, self.symbol, cached)
        second == get_molecular_formula(self.atoms, self.symbol,
                                        first.molecular_formula)
        current_min == [i1 \in DOMAIN self.atoms |->
            LET same == {i2 \in DOMAIN other.atoms :
                             self.symbol[i1] = other.symbol[i2]}
                nearer == {distance(self.atoms[i1], other.atoms[i2]) : i2 \in same}
                             \cup {NoMatchDistance}
            IN  CHOOSE d \in nearer : \A e \in nearer : d <= e]
        diff == SumOver(current_min, DOMAIN self.atoms)
    IN  IF first.outcome # "returned"
        THEN [outcome |-> first.outcome, ret |-> None,
              molecular_formula |-> first.molecular_formula]
        ELSE IF second.outcome # "returned"
        THEN [outcome |-> second.outcome, ret |-> None,
              molecular_formula |-> second.molecular_formula]
        ELSE [outcome |-> "returned",
              ret |-> IF first.ret # second.ret THEN PyFalse
                      ELSE IF diff < MoleculeTolerance
                           THEN (IF diff < MoleculeTolerance THEN PyFalse ELSE PyTrue)
                           ELSE None,
              molecular_formula |-> second.molecular_formula]

\* the molecule self
SelfMolecule == [atoms |-> atoms, symbol |-> symbol]

\* a molecule with one more atom at the end of its list
WithAtom(m, p, s) ==
    LET n == NumAtoms(m.atoms)
    IN  [atoms |-> [i \in Indices(n + 1) |-> IF i < n THEN m.atoms[i] ELSE p],
         symbol |-> [i \in Indices(n + 1) |-> IF i < n THEN m.symbol[i] ELSE s]]

\* a molecule without the last atom of its list
WithoutLast(m) ==
    LET n == NumAtoms(m.atoms)
    IN  [atoms |-> [i \in Indices(n - 1) |-> m.atoms[i]],
         symbol |-> [i \in Indices(n - 1) |-> m.symbol[i]]]

\* the molecules self is compared with: itself, itself with one more atom,
\* and itself without its last atom
OtherMolecules ==
    {SelfMolecule}
        \cup {WithAtom(SelfMolecule, p, s) : p \in SpacedPoints, s \in Symbols}
        \cup (IF NumAtoms(atoms) > 0 THEN {WithoutLast(SelfMolecule)} ELSE {})

\* self == other
Call_Molecule_eq_other(other) ==
    LET ran == Molecule_eq(SelfMolecule, other, molecular_formula)
    IN  /\ MethodCall("Molecule_eq", <<>>, [other |-> other], ran)
        /\ molecular_formula' = ran.molecular_formula
        /\ UNCHANGED <<symbol, weight, mass_center, inertia_eigenvectors>>

\* self != other
Call_Molecule_ne_other(other) ==
    LET ran == Molecule_ne(SelfMolecule, other, molecular_formula)
    IN  /\ MethodCall("Molecule_ne", <<>>, [other |-> other], ran)
        /\ molecular_formula' = ran.molecular_formula
        /\ UNCHANGED <<symbol, weight, mass_center, inertia_eigenvectors>>

NextCompare ==
    \/ \E other \in OtherMolecules : Call_Molecule_eq_other(other)
    \/ \E other \in OtherMolecules : Call_Molecule_ne_other(other)
    \/ Continue

SpecCompare == InitMolecule /\ [][NextCompare]_vars

(***************************************************************************)
(* Claims about the comparison of molecules                                *)
(***************************************************************************)
\* C22: self == other is False whenever the two molecules have different
\* molecular formulas, as when other holds the atoms of self and more; and
\* if self == other is True then other == self is True.
C22_DifferentFormulasAreUnequal ==
    (op = "Molecule_eq" /\ pc = "done") =>
        /\ outcome = "returned"
        /\ FormulaOf(symbol) # FormulaOf(args.other.symbol) => ret = FALSE
        /\ ret = TRUE =>
              LET back == Molecule_eq(args.other, SelfMolecule, None)
              IN  back.outcome = "returned" /\ back.ret = TRUE

\* C23: self != other gives a true value exactly when self == other gives
\* False, and False exactly when self == other gives True; both return a
\* boolean.
C23_NotEqualIsComplement ==
    (op \in {"Molecule_eq", "Molecule_ne"} /\ pc = "done") =>
        LET eq == Molecule_eq(SelfMolecule, args.other, molecular_formula)
            ne == Molecule_ne(SelfMolecule, args.other, molecular_formula)
        IN  /\ eq.outcome = "returned"
            /\ ne.outcome = "returned"
            /\ ne.ret \in {PyTrue, PyFalse}
            /\ (ne.ret = PyTrue) <=> (eq.ret = FALSE)

(***************************************************************************)
(* Molecule.__add__ and SpecRebuild: atoms are added and moved between     *)
(* calls of get_connectivity_matrix                                        *)
(***************************************************************************)
\* self + other, lines 461-463, where other holds one blank atom at p: the
\* atom is appended to self.atoms; the graph is not touched
Molecule_add(p) ==
    LET n == NumAtoms(atoms)
    IN  /\ pc = "idle"
        /\ n < MaxMovedAtoms
        /\ atoms' = [i \in Indices(n + 1) |-> IF i < n THEN atoms[i] ELSE p]
        /\ symbol' = [i \in Indices(n + 1) |-> IF i < n THEN symbol[i] ELSE ""]
        /\ weight' = [i \in Indices(n + 1) |-> IF i < n THEN weight[i] ELSE 0]
        /\ op' = "Molecule_add"
        /\ args' = [other |-> [atoms |-> [i \in Indices(1) |-> p]]]
        /\ outcome' = "returned"
        /\ ret' = NoRet
        /\ before' = atoms
        /\ pc' = "done"
        /\ UNCHANGED <<connectivity_graph, ids, delta, subsets, startpoint,
                       excluded, inside, checked, first_fragment, second_fragment,
                       molecular_formula, mass_center, inertia_eigenvectors>>

InitRebuild ==
    /\ \E n \in 0 .. MaxMovedAtoms : atoms \in [Indices(n) -> GridPoints]
    /\ before = atoms
    /\ connectivity_graph = NoGraph
    /\ BlankAtoms(atoms)
    /\ NothingCached
    /\ InitCall

NextRebuild ==
    \/ get_connectivity_matrix
    \/ \E k \in DOMAIN atoms, p \in GridPoints : move_atom(k, p)
    \/ \E p \in GridPoints : Molecule_add(p)
    \/ Continue

SpecRebuild == InitRebuild /\ [][NextRebuild]_vars

(***************************************************************************)
(* Claims about calling get_connectivity_matrix again                      *)
(***************************************************************************)
\* C24: a call of get_connectivity_matrix made after any additions of atoms
\* and changes of coordinates returns with the graph of the molecule as it
\* is now: its size is the number of atoms, and two atoms are joined if and
\* only if they are within the bonding cutoff now.
C24_RebuildMatchesCurrentMolecule ==
    (op = "get_connectivity_matrix" /\ pc = "done") =>
        /\ outcome = "returned"
        /\ connectivity_graph.size = NumAtoms(atoms)
        /\ \A i, j \in DOMAIN atoms :
              i # j =>
                  (Edge(connectivity_graph.nodes, i, j)
                      <=> connected(atoms[i], atoms[j]))

(***************************************************************************)
(* Molecule.__sub__ and SpecSubtract                                       *)
(***************************************************************************)
\* the atom of a molecule at index i, as an object
AtomOf(m, i) == [coord |-> m.atoms[i], symbol |-> m.symbol[i]]

RECURSIVE for_deletion(_, _, _, _)
\* lines 466-470: for every atom i1 of other in turn, the atoms of self that
\* i1 == i2 holds for, in the order of self.atoms; an atom of self is the
\* index it had when the call started.  i1 and num are the positions the two
\* loops have reached.
for_deletion(self, other, i1, num) ==
    IF i1 >= NumAtoms(other.atoms) THEN << >>
    ELSE IF num >= NumAtoms(self.atoms) THEN for_deletion(self, other, i1 + 1, 0)
    ELSE (IF Atom_eq(AtomOf(other, i1), AtomOf(self, num)) THEN << num >> ELSE << >>)
             \o for_deletion(self, other, i1, num + 1)

\* "x in list" and list.remove(x) take an element of the list for x when it
\* is x itself or compares equal to x
ListMatch(self, element, x) ==
    element = x \/ Atom_eq(AtomOf(self, element), AtomOf(self, x))

\* list.remove(x): the first matching element is taken out
ListRemove(self, list, x) ==
    LET first == CHOOSE k \in 1 .. Len(list) :
                     /\ ListMatch(self, list[k], x)
                     /\ \A j \in 1 .. (k - 1) : ~ListMatch(self, list[j], x)
    IN  SubSeq(list, 1, first - 1) \o SubSeq(list, first + 1, Len(list))

RECURSIVE RemoveAll(_, _, _)
\* lines 471-473: for each atom of for_deletion, if it is in self.atoms,
\* self.atoms.remove(it)
RemoveAll(self, list, deletion) ==
    IF deletion = << >> THEN list
    ELSE LET x == Head(deletion)
         IN  IF \E k \in 1 .. Len(list) : ListMatch(self, list[k], x)
             THEN RemoveAll(self, ListRemove(self, list, x), Tail(deletion))
             ELSE RemoveAll(self, list, Tail(deletion))

\* Molecule.__sub__(self, other): the atoms of self that are left, as the
\* indices they had when the call started
Molecule_sub(self, other) ==
    RemoveAll(self, [k \in 1 .. NumAtoms(self.atoms) |-> k - 1],
              for_deletion(self, other, 0, 0))

\* self - other
Call_Molecule_sub(other) ==
    LET left == Molecule_sub(SelfMolecule, other)
    IN  /\ pc = "idle"
        /\ atoms' = [i \in Indices(Len(left)) |-> atoms[left[i + 1]]]
        /\ symbol' = [i \in Indices(Len(left)) |-> symbol[left[i + 1]]]
        /\ weight' = [i \in Indices(Len(left)) |-> weight[left[i + 1]]]
        /\ op' = "Molecule_sub"
        /\ args' = [other |-> other]
        /\ outcome' = "returned"
        /\ ret' = NoRet
        /\ before' = atoms
        /\ pc' = "done"
        /\ UNCHANGED <<connectivity_graph, ids, delta, subsets, startpoint,
                       excluded, inside, checked, first_fragment, second_fragment,
                       molecular_formula, mass_center, inertia_eigenvectors>>

\* the molecules that are subtracted: one or two atoms on the points and with
\* the symbols of the atoms of self
SubtractedMolecules ==
    UNION {[atoms : [Indices(n) -> NearPoints], symbol : [Indices(n) -> Symbols]] :
              n \in 1 .. MaxComparedAtoms}

NextSubtract ==
    \/ \E other \in SubtractedMolecules : Call_Molecule_sub(other)
    \/ Continue

SpecSubtract == InitAtoms /\ [][NextSubtract]_vars

(***************************************************************************)
(* Claims about Molecule.__sub__                                           *)
(***************************************************************************)
\* an atom of the molecule m equals, by Atom ==, an atom of other
EqualsOneOf(a, other) ==
    \E j \in DOMAIN other.atoms : Atom_eq(a, AtomOf(other, j))

\* C25: after self - other no atom left in self.atoms is equal to an atom of
\* other, and every atom of self that was equal to no atom of other is still
\* in self.atoms, also when atoms lie within the tolerance of one another.
C25_SubtractRemovesExactlyEqualAtoms ==
    [][(pc = "idle" /\ op' = "Molecule_sub") =>
          LET other == args'.other
              was == SelfMolecule
              now == [atoms |-> atoms', symbol |-> symbol']
          IN  /\ \A k \in DOMAIN now.atoms : ~EqualsOneOf(AtomOf(now, k), other)
              /\ \A i \in DOMAIN was.atoms :
                    ~EqualsOneOf(AtomOf(was, i), other) =>
                        \E k \in DOMAIN now.atoms : AtomOf(now, k) = AtomOf(was, i)]_vars

====
